---- MODULE Spec2Model ----
(***************************************************************************)
(* Model of godot-macros/src/derive_godot_class.rs: the derive pass that   *)
(* turns an annotated struct declaration into a GodotClass binding, an     *)
(* optional generated constructor and a class-registry plugin entry.       *)
(*                                                                         *)
(* A declaration is a record [kind, name, attributes, fields].  An         *)
(* optional value (Rust Option) is a sequence of length 0 or 1.  A         *)
(* ParseResult is a record [ok, err, detail, value]: err is the message of *)
(* the diagnostic, detail the identifiers the message interpolates.        *)
(***************************************************************************)
EXTENDS Naturals, Sequences, FiniteSets

\* ------------------------------------------------------------------ bounds
MaxStructAttrs == 2
MaxFields == 3
MaxMarkers == 2
MaxMarkedFields == 2
MaxRegistry == 2

\* ------------------------------------------------------------- diagnostics
UnsupportedShape == "Not a valid struct"
UnsupportedFields == "#[derive(GodotClass)] not supported for tuple structs"
DuplicateConfigAttribute == "Only one #[godot] attribute per item (struct, fn, ...) allowed"
InvalidBaseValue == "Invalid value for 'base' argument"
InitTakesNoValue == "Argument 'init' must not have a value"
UnknownAttributeKey == "Unrecognized attribute keys"
MultipleBaseFields == "#[base] allowed for at most 1 field, already applied to"

AttributeDiagnostics ==
    {DuplicateConfigAttribute, InvalidBaseValue, InitTakesNoValue, UnknownAttributeKey}

\* ------------------------------------------------------------ ParseResult
Ok(v) == [ok |-> TRUE, err |-> "", detail |-> {}, value |-> <<v>>]

bail(msg, detail) == [ok |-> FALSE, err |-> msg, detail |-> detail, value |-> <<>>]

\* ---------------------------------------------------------------- KvValue
KvNone == [tag |-> "None", id |-> ""]

KvIdent(x) == [tag |-> "Ident", id |-> x]

KvLit == [tag |-> "Lit", id |-> ""]

ident(s) == s

\* map.remove(key): the value removed (an Option) and the map left over
kv_get(map, key) == IF key \in DOMAIN map THEN <<map[key]>> ELSE <<>>

kv_remove(map, key) == [k \in (DOMAIN map) \ {key} |-> map[k]]

\* util::ensure_kv_empty: an error naming every key left in the map
ensure_kv_empty(map) ==
    IF DOMAIN map = {} THEN Ok(TRUE) ELSE bail(UnknownAttributeKey, DOMAIN map)

\* util::path_is_single: the path is the one segment `expected`
path_is_single(path, expected) == Len(path) = 1 /\ path[1] = expected

\* venial Attribute::get_single_path_segment
get_single_path_segment(path) == IF Len(path) = 1 THEN <<path[1]>> ELSE <<>>

\* ------------------------------------------------------- parse_godot_attr
RECURSIVE parse_godot_attr_from(_, _, _)
parse_godot_attr_from(attributes, i, godot_attr) ==
    IF i > Len(attributes) THEN Ok(godot_attr)
    ELSE IF path_is_single(attributes[i].path, "godot")
         THEN IF godot_attr # <<>>
              THEN bail(DuplicateConfigAttribute, {})
              ELSE parse_godot_attr_from(attributes, i + 1, <<attributes[i].value>>)
         ELSE parse_godot_attr_from(attributes, i + 1, godot_attr)

parse_godot_attr(attributes) == parse_godot_attr_from(attributes, 1, <<>>)

\* ------------------------------------------------ parse_struct_attributes
ClassAttributes(base, init) == [base_ty |-> base, has_generated_init |-> init]

\* mutant of resolve_init: the leftover keys are never checked
resolve_init_unchecked(map, base) ==
    LET kv == kv_get(map, "init")
    IN  IF kv # <<>> /\ kv[1] # KvNone
        THEN bail(InitTakesNoValue, {})
        ELSE Ok(ClassAttributes(base, kv # <<>>))

\* the `init` key and the leftover check, once `base` is resolved
resolve_init(map, base) ==
    LET kv == kv_get(map, "init")
        rest == kv_remove(map, "init")
    IN  IF kv # <<>> /\ kv[1] # KvNone
        THEN bail(InitTakesNoValue, {})
        ELSE IF ~ensure_kv_empty(rest).ok
             THEN ensure_kv_empty(rest)
             ELSE Ok(ClassAttributes(base, kv # <<>>))

\* mutant of resolve_base: a `base` that is no identifier is dropped silently
resolve_base_lenient(map) ==
    LET kv == kv_get(map, "base")
        rest == kv_remove(map, "base")
    IN  IF kv # <<>> /\ kv[1].tag = "Ident" THEN resolve_init(rest, kv[1].id)
        ELSE resolve_init(rest, ident("RefCounted"))

resolve_base(map) ==
    LET kv == kv_get(map, "base")
        rest == kv_remove(map, "base")
    IN  IF kv = <<>> THEN resolve_init(rest, ident("RefCounted"))
        ELSE IF kv[1].tag = "Ident" THEN resolve_init(rest, kv[1].id)
        ELSE bail(InvalidBaseValue, {})

parse_struct_attributes(class) ==
    LET attr == parse_godot_attr(class.attributes)
    IN  IF ~attr.ok THEN attr
        ELSE IF attr.value[1] = <<>>
             THEN Ok(ClassAttributes(ident("RefCounted"), FALSE))
             ELSE resolve_base(attr.value[1][1])

\* ------------------------------------------------------------ parse_fields
ExportedField(field) == [name |-> field.name, _ty |-> field.ty]

Fields(names, base) == [all_field_names |-> names, base_field |-> base]

\* mutant of scan_attributes: the error names the field being scanned
RECURSIVE scan_attributes_names_current(_, _, _)
scan_attributes_names_current(field, j, acc) ==
    IF j > Len(field.attributes) THEN Ok(acc)
    ELSE LET path == get_single_path_segment(field.attributes[j])
         IN  IF path = <<>> THEN scan_attributes_names_current(field, j + 1, acc)
             ELSE IF path[1] = "base"
                  THEN IF acc.base_field # <<>>
                       THEN bail(MultipleBaseFields, {field.name})
                       ELSE scan_attributes_names_current(field, j + 1,
                                [acc EXCEPT !.is_base = TRUE,
                                            !.base_field = <<ExportedField(field)>>])
                  ELSE IF path[1] = "export"
                       THEN scan_attributes_names_current(field, j + 1,
                                [acc EXCEPT !.exported_fields =
                                                Append(@, ExportedField(field))])
                       ELSE scan_attributes_names_current(field, j + 1, acc)

\* mutant of scan_attributes: only a `base` on another field is an error
RECURSIVE scan_attributes_per_field(_, _, _)
scan_attributes_per_field(field, j, acc) ==
    IF j > Len(field.attributes) THEN Ok(acc)
    ELSE LET path == get_single_path_segment(field.attributes[j])
         IN  IF path = <<>> THEN scan_attributes_per_field(field, j + 1, acc)
             ELSE IF path[1] = "base"
                  THEN IF acc.base_field # <<>> /\ ~acc.is_base
                       THEN bail(MultipleBaseFields, {acc.base_field[1].name})
                       ELSE scan_attributes_per_field(field, j + 1,
                                [acc EXCEPT !.is_base = TRUE,
                                            !.base_field = <<ExportedField(field)>>])
                  ELSE IF path[1] = "export"
                       THEN scan_attributes_per_field(field, j + 1,
                                [acc EXCEPT !.exported_fields =
                                                Append(@, ExportedField(field))])
                       ELSE scan_attributes_per_field(field, j + 1, acc)

\* the inner loop over one field's attributes; acc = [is_base, base_field,
\* exported_fields], or a failed ParseResult once a second #[base] is met
RECURSIVE scan_attributes(_, _, _)
scan_attributes(field, j, acc) ==
    IF j > Len(field.attributes) THEN Ok(acc)
    ELSE LET path == get_single_path_segment(field.attributes[j])
         IN  IF path = <<>> THEN scan_attributes(field, j + 1, acc)
             ELSE IF path[1] = "base"
                  THEN IF acc.base_field # <<>>
                       THEN bail(MultipleBaseFields, {acc.base_field[1].name})
                       ELSE scan_attributes(field, j + 1,
                                [acc EXCEPT !.is_base = TRUE,
                                            !.base_field = <<ExportedField(field)>>])
                  ELSE IF path[1] = "export"
                       THEN scan_attributes(field, j + 1,
                                [acc EXCEPT !.exported_fields =
                                                Append(@, ExportedField(field))])
                       ELSE scan_attributes(field, j + 1, acc)

\* mutant of scan_fields: the base field is listed among the plain fields too
RECURSIVE scan_fields_lists_base(_, _, _, _, _)
scan_fields_lists_base(fields, i, all_field_names, exported_fields, base_field) ==
    IF i > Len(fields) THEN Ok(Fields(all_field_names, base_field))
    ELSE LET r == scan_attributes(fields[i], 1,
                      [is_base |-> FALSE, base_field |-> base_field,
                       exported_fields |-> exported_fields])
         IN  IF ~r.ok THEN r
             ELSE scan_fields_lists_base(fields, i + 1,
                      Append(all_field_names, fields[i].name),
                      r.value[1].exported_fields, r.value[1].base_field)

\* the outer loop over the named fields, in declaration order
RECURSIVE scan_fields(_, _, _, _, _)
scan_fields(fields, i, all_field_names, exported_fields, base_field) ==
    IF i > Len(fields) THEN Ok(Fields(all_field_names, base_field))
    ELSE LET r == scan_attributes(fields[i], 1,
                      [is_base |-> FALSE, base_field |-> base_field,
                       exported_fields |-> exported_fields])
         IN  IF ~r.ok THEN r
             ELSE scan_fields(fields, i + 1,
                      IF r.value[1].is_base THEN all_field_names
                      ELSE Append(all_field_names, fields[i].name),
                      r.value[1].exported_fields, r.value[1].base_field)

\* mutant of parse_fields: a tuple struct is taken for a struct with no fields
parse_fields_accepts_tuple(class) ==
    IF class.fields.shape = "Named"
    THEN scan_fields(class.fields.named, 1, <<>>, <<>>, <<>>)
    ELSE scan_fields(<<>>, 1, <<>>, <<>>, <<>>)

parse_fields(class) ==
    IF class.fields.shape = "Tuple" THEN bail(UnsupportedFields, {})
    ELSE IF class.fields.shape = "Unit" THEN scan_fields(<<>>, 1, <<>>, <<>>, <<>>)
    ELSE scan_fields(class.fields.named, 1, <<>>, <<>>, <<>>)

\* ---------------------------------------------------- make_godot_init_impl
\* the struct literal of __godot_init: (field, initializer) pairs in order
RECURSIVE rest_init(_)
rest_init(names) ==
    IF names = <<>> THEN <<>>
    ELSE <<[field |-> Head(names), init |-> "Default::default()"]>> \o rest_init(Tail(names))

base_init(base_field) ==
    IF base_field # <<>> THEN <<[field |-> base_field[1].name, init |-> "base"]>>
    ELSE <<>>

\* mutant of make_godot_init_impl: the base field is initialized first
make_godot_init_impl_base_first(class_name, fields) ==
    [for |-> class_name,
     literal |-> base_init(fields.base_field) \o rest_init(fields.all_field_names)]

make_godot_init_impl(class_name, fields) ==
    [for |-> class_name,
     literal |-> rest_init(fields.all_field_names) \o base_init(fields.base_field)]

\* -------------------------------------------------------------- transform
\* mutant of ClassPlugin: the entry carries the default base class
ClassPlugin_default_base(class_name_str, base_ty_str, create_fn) ==
    [class_name |-> class_name_str,
     base_class_name |-> "RefCounted",
     generated_create_fn |-> create_fn,
     free_fn |-> <<"callbacks::free", class_name_str>>]

ClassPlugin(class_name_str, base_ty_str, create_fn) ==
    [class_name |-> class_name_str,
     base_class_name |-> base_ty_str,
     generated_create_fn |-> create_fn,
     free_fn |-> <<"callbacks::free", class_name_str>>]

\* mutant of emit: the create callback is registered whether or not a
\* constructor was generated
emit_always_create(class, struct_cfg, fields) ==
    [binding |-> [for |-> class.name,
                  Base |-> struct_cfg.base_ty,
                  Declarer |-> "UserDomain",
                  Mem |-> <<"Mem of", struct_cfg.base_ty>>,
                  CLASS_NAME |-> class.name],
     godot_init_impl |-> IF struct_cfg.has_generated_init
                         THEN <<make_godot_init_impl(class.name, fields)>>
                         ELSE <<>>,
     plugin |-> ClassPlugin(class.name, struct_cfg.base_ty,
                    <<<<"callbacks::create", class.name>>>>),
     inherits_macro |-> <<"inherits_transitive_", struct_cfg.base_ty>>]

\* the token stream assembled from the two parse results
emit(class, struct_cfg, fields) ==
    [binding |-> [for |-> class.name,
                  Base |-> struct_cfg.base_ty,
                  Declarer |-> "UserDomain",
                  Mem |-> <<"Mem of", struct_cfg.base_ty>>,
                  CLASS_NAME |-> class.name],
     godot_init_impl |-> IF struct_cfg.has_generated_init
                         THEN <<make_godot_init_impl(class.name, fields)>>
                         ELSE <<>>,
     plugin |-> ClassPlugin(class.name, struct_cfg.base_ty,
                    IF struct_cfg.has_generated_init
                    THEN <<<<"callbacks::create", class.name>>>>
                    ELSE <<>>),
     inherits_macro |-> <<"inherits_transitive_", struct_cfg.base_ty>>]

\* mutant of transform: the field list is checked before the attributes
transform_fields_first(decl) ==
    IF decl.kind # "struct" THEN bail(UnsupportedShape, {})
    ELSE LET fields == parse_fields(decl)
         IN  IF ~fields.ok THEN fields
             ELSE LET struct_cfg == parse_struct_attributes(decl)
                  IN  IF ~struct_cfg.ok THEN struct_cfg
                      ELSE Ok(emit(decl, struct_cfg.value[1], fields.value[1]))

\* the whole pass as a function of the declaration
transform(decl) ==
    IF decl.kind # "struct" THEN bail(UnsupportedShape, {})
    ELSE LET struct_cfg == parse_struct_attributes(decl)
         IN  IF ~struct_cfg.ok THEN struct_cfg
             ELSE LET fields == parse_fields(decl)
                  IN  IF ~fields.ok THEN fields
                      ELSE Ok(emit(decl, struct_cfg.value[1], fields.value[1]))

\* plugin_add!: the emitted registration adds the plugin to the registry
plugin_add(registry, plugin) == Append(registry, plugin)

\* ------------------------------------------------------------------ inputs
Declaration(kind, name, attributes, fields) ==
    [kind |-> kind, name |-> name, attributes |-> attributes, fields |-> fields]

UnitFields == [shape |-> "Unit", named |-> <<>>]

TupleFields == [shape |-> "Tuple", named |-> <<>>]

NamedFields(fs) == [shape |-> "Named", named |-> fs]

NamedField(i, attrs) == [name |-> <<"f", i>>, ty |-> <<"T", i>>, attributes |-> attrs]

SeqsUpTo(S, n) == UNION {[1..k -> S] : k \in 0..n}

\* field lists of at most n fields, each with at most m attributes from paths
FieldLists(paths, n, m) ==
    UNION {{[i \in 1..k |-> NamedField(i, f[i])] : f \in [1..k -> SeqsUpTo(paths, m)]}
           : k \in 0..n}

EmptyMap == <<>>

\* the key/value groups parse_kv_group can yield over the given values
KvMaps(baseValues, initValues, otherKeys) ==
    {m \in UNION {[S -> baseValues \cup initValues] : S \in SUBSET ({"base", "init"} \cup otherKeys)} :
        /\ "base" \in DOMAIN m => m["base"] \in baseValues
        /\ "init" \in DOMAIN m => m["init"] \in initValues
        /\ \A k \in otherKeys : k \in DOMAIN m => m[k] = KvNone}

GodotAttr(map) == [path |-> <<"godot">>, value |-> map]

DeriveAttr == [path |-> <<"derive">>, value |-> EmptyMap]

\* ------------------------------------------------------------------- state
\* decl, struct_cfg, fields and result are the locals of the pass in flight
\* (each an Option); registry is the plugin registry, which outlives it.
VARIABLES pc, decl, struct_cfg, fields, result, registry

vars == <<pc, decl, struct_cfg, fields, result, registry>>

Init ==
    /\ pc = "idle"
    /\ decl = <<>>
    /\ struct_cfg = <<>>
    /\ fields = <<>>
    /\ result = <<>>
    /\ registry = <<>>

\* one invocation of the derive macro on declaration d
Transform(d) ==
    /\ pc = "idle"
    /\ Len(registry) < MaxRegistry
    /\ pc' = "returned"
    /\ decl' = <<d>>
    /\ struct_cfg' = IF d.kind = "struct" THEN parse_struct_attributes(d).value ELSE <<>>
    /\ fields' = IF d.kind = "struct" /\ parse_struct_attributes(d).ok
                 THEN parse_fields(d).value ELSE <<>>
    /\ result' = <<transform(d)>>
    /\ registry' = IF transform(d).ok
                   THEN plugin_add(registry, transform(d).value[1].plugin)
                   ELSE registry

\* the pass keeps nothing between invocations but the registered plugins
Return ==
    /\ pc = "returned"
    /\ pc' = "idle"
    /\ decl' = <<>>
    /\ struct_cfg' = <<>>
    /\ fields' = <<>>
    /\ result' = <<>>
    /\ UNCHANGED registry

\* --------------------------------------------------------- specifications
FieldAttrPaths == {<<"base">>, <<"export">>, <<"doc">>}

RoleAttrPaths == {<<"base">>, <<"export">>}

\* Spec: the field scanner's inputs, with no #[godot] attribute, with `init`
\* and with an unknown key: up to MaxFields fields of at most one attribute
\* each, and up to MaxMarkedFields fields of up to MaxMarkers role attributes
FieldDecls ==
    {Declaration("struct", "Player", a, f) :
        a \in {<<>>, <<GodotAttr([init |-> KvNone])>>, <<GodotAttr([foo |-> KvNone])>>},
        f \in {UnitFields, TupleFields}
              \cup {NamedFields(fs) : fs \in FieldLists(FieldAttrPaths, MaxFields, 1)}
              \cup {NamedFields(fs) :
                       fs \in FieldLists(RoleAttrPaths, MaxMarkedFields, MaxMarkers)}}

Next == (\E d \in FieldDecls : Transform(d)) \/ Return

Spec == Init /\ [][Next]_vars

\* SpecAttrs: the attribute resolver's inputs, on unit and tuple structs and
\* on an enum: every single attribute, and up to MaxStructAttrs attributes
\* with at most one key each
StructAttrs ==
    {DeriveAttr} \cup {GodotAttr(m) :
        m \in KvMaps({KvNone, KvIdent("Node"), KvLit}, {KvNone, KvLit}, {"foo"})}

OneKeyAttrs == {a \in StructAttrs : Cardinality(DOMAIN a.value) <= 1}

AttrDecls ==
    {Declaration("struct", "Player", a, f) :
        a \in SeqsUpTo(StructAttrs, 1) \cup SeqsUpTo(OneKeyAttrs, MaxStructAttrs),
        f \in {UnitFields, TupleFields}}
    \cup {Declaration("enum", "Player", <<>>, UnitFields)}

NextAttrs == (\E d \in AttrDecls : Transform(d)) \/ Return

SpecAttrs == Init /\ [][NextAttrs]_vars

\* SpecRegistry: two classes, every shape of declaration and every failure
PassAttrs ==
    {GodotAttr(m) : m \in {[base |-> KvIdent("Node"), init |-> KvNone], [base |-> KvLit],
                           [init |-> KvLit], [foo |-> KvNone]}}

PassDecls ==
    {Declaration("struct", n, a, f) :
        n \in {"Player", "Enemy"},
        a \in SeqsUpTo(PassAttrs, MaxStructAttrs),
        f \in {UnitFields, TupleFields}
              \cup {NamedFields(fs) : fs \in FieldLists({<<"base">>}, 1, MaxMarkers)}}
    \cup {Declaration("enum", n, <<>>, UnitFields) : n \in {"Player", "Enemy"}}

NextRegistry == (\E d \in PassDecls : Transform(d)) \/ Return

SpecRegistry == Init /\ [][NextRegistry]_vars

\* ==================================================================== claims
\* What a declaration says, read off the declaration itself.
Returned == pc = "returned"

IsGodot(a) == a.path = <<"godot">>

GodotAttrsOf(d) == SelectSeq(d.attributes, IsGodot)

ConfigMap(d) == GodotAttrsOf(d)[1].value

HasOneConfig(d) == d.kind = "struct" /\ Len(GodotAttrsOf(d)) = 1

UnknownKeys(m) == (DOMAIN m) \ {"base", "init"}

BaseValueOk(m) == "base" \in DOMAIN m => m["base"].tag = "Ident"

InitValueOk(m) == "init" \in DOMAIN m => m["init"] = KvNone

\* the struct-level attributes hold nothing the resolver rejects
AttrsWellFormed(d) ==
    /\ Len(GodotAttrsOf(d)) <= 1
    /\ Len(GodotAttrsOf(d)) = 1 =>
          /\ BaseValueOk(ConfigMap(d))
          /\ InitValueOk(ConfigMap(d))
          /\ UnknownKeys(ConfigMap(d)) = {}

InitConfigured(d) == Len(GodotAttrsOf(d)) = 1 /\ "init" \in DOMAIN ConfigMap(d)

DeclaredBase(d) ==
    IF Len(GodotAttrsOf(d)) = 1 /\ "base" \in DOMAIN ConfigMap(d)
    THEN ConfigMap(d)["base"].id ELSE "RefCounted"

IsBaseMarker(p) == p = <<"base">>

BaseMarkers(f) == Len(SelectSeq(f.attributes, IsBaseMarker))

RECURSIVE TotalBaseMarkers(_)
TotalBaseMarkers(fs) ==
    IF fs = <<>> THEN 0 ELSE BaseMarkers(Head(fs)) + TotalBaseMarkers(Tail(fs))

BaseFieldIndexes(d) ==
    {i \in 1..Len(d.fields.named) : BaseMarkers(d.fields.named[i]) >= 1}

Min(S) == CHOOSE x \in S : \A y \in S : x <= y

C3_UnknownKeyAlwaysReported ==
    (Returned /\ HasOneConfig(decl[1]) /\ UnknownKeys(ConfigMap(decl[1])) # {})
        => /\ result[1].err = UnknownAttributeKey
           /\ UnknownKeys(ConfigMap(decl[1])) \subseteq result[1].detail

\* C3 (amended): with an unrecognized key in the one configuration attribute
\* the pass always fails; the diagnostic is UnknownAttributeKey, naming
\* exactly the leftover keys, when `base` and `init` are valid; an invalid
\* `base` is reported instead, and failing that an `init` with a value.
C3_UnknownKeyReportedAfterBaseAndInit ==
    (Returned /\ HasOneConfig(decl[1]) /\ UnknownKeys(ConfigMap(decl[1])) # {})
        => LET m == ConfigMap(decl[1])
           IN  /\ ~result[1].ok
               /\ ~BaseValueOk(m) => result[1].err = InvalidBaseValue
               /\ (BaseValueOk(m) /\ ~InitValueOk(m)) => result[1].err = InitTakesNoValue
               /\ (BaseValueOk(m) /\ InitValueOk(m)) =>
                      /\ result[1].err = UnknownAttributeKey
                      /\ result[1].detail = UnknownKeys(m)

C3_Witness ==
    /\ Returned
    /\ HasOneConfig(decl[1])
    /\ DOMAIN ConfigMap(decl[1]) = {"base", "init", "foo"}
    /\ result[1].err = UnknownAttributeKey
    /\ result[1].detail = {"foo"}

\* ---- C4
\* C4: when the one configuration attribute has `base = X` with X a bare
\* identifier, every resolved configuration and every output uses X as the
\* base (binding, registry entry, inherits_transitive_X); a `base` key in
\* flag form or with any other value fails with InvalidBaseValue.
C4_BaseOverride ==
    (Returned /\ HasOneConfig(decl[1]) /\ "base" \in DOMAIN ConfigMap(decl[1]))
        => LET v == ConfigMap(decl[1])["base"]
           IN  IF v.tag = "Ident"
               THEN /\ result[1].err # InvalidBaseValue
                    /\ struct_cfg # <<>> => struct_cfg[1].base_ty = v.id
                    /\ result[1].ok =>
                          /\ result[1].value[1].binding.Base = v.id
                          /\ result[1].value[1].plugin.base_class_name = v.id
                          /\ result[1].value[1].inherits_macro = <<"inherits_transitive_", v.id>>
               ELSE /\ ~result[1].ok
                    /\ result[1].err = InvalidBaseValue

C4_Witness ==
    /\ Returned
    /\ HasOneConfig(decl[1])
    /\ "base" \in DOMAIN ConfigMap(decl[1])
    /\ ConfigMap(decl[1])["base"] = KvIdent("Node")
    /\ result[1].ok
    /\ result[1].value[1].binding.Base = "Node"

\* ---- C6
\* C6: on every successful pass the constructor is generated, and the
\* registry entry's generated_create_fn is Some, exactly when the
\* configuration attribute carries `init`; with no configuration attribute
\* neither is.
C6_ConstructorIffInit ==
    (Returned /\ result[1].ok)
        => LET out == result[1].value[1]
           IN  /\ (out.godot_init_impl # <<>>) <=> InitConfigured(decl[1])
               /\ (out.plugin.generated_create_fn # <<>>) <=> InitConfigured(decl[1])
               /\ struct_cfg[1].has_generated_init <=> InitConfigured(decl[1])
               /\ out.plugin.generated_create_fn # <<>> =>
                      out.plugin.generated_create_fn[1] = <<"callbacks::create", decl[1].name>>

C6_Witness ==
    /\ Returned
    /\ result[1].ok
    /\ InitConfigured(decl[1])
    /\ result[1].value[1].godot_init_impl # <<>>
    /\ result[1].value[1].plugin.generated_create_fn # <<>>

\* ---- C2
NamedStruct(d) == d.kind = "struct" /\ d.fields.shape = "Named"

FirstBaseField(d) == d.fields.named[Min(BaseFieldIndexes(d))]

\* C2 (as stated): every struct with two or more fields marked `base` fails
\* with MultipleBaseFields naming the first-declared base field.
C2_TwoBaseFieldsAlwaysMultipleBaseFields ==
    (Returned /\ NamedStruct(decl[1]) /\ Cardinality(BaseFieldIndexes(decl[1])) >= 2)
        => /\ result[1].err = MultipleBaseFields
           /\ result[1].detail = {FirstBaseField(decl[1]).name}

\* C2 (amended): every struct with named fields whose struct-level
\* attributes resolve without error and with two or more fields marked
\* `base` fails with MultipleBaseFields naming the first-declared base field,
\* with or without `init`; when the struct-level attributes are rejected the
\* pass reports their diagnostic instead.
C2_TwoBaseFieldsAfterAttributes ==
    (Returned /\ NamedStruct(decl[1]) /\ Cardinality(BaseFieldIndexes(decl[1])) >= 2)
        => /\ ~result[1].ok
           /\ AttrsWellFormed(decl[1]) =>
                  /\ result[1].err = MultipleBaseFields
                  /\ result[1].detail = {FirstBaseField(decl[1]).name}
           /\ ~AttrsWellFormed(decl[1]) => result[1].err \in AttributeDiagnostics

\* two base fields with a field between them, under `init`
C2_Witness ==
    /\ Returned
    /\ NamedStruct(decl[1])
    /\ InitConfigured(decl[1])
    /\ BaseFieldIndexes(decl[1]) = {1, 3}
    /\ result[1].err = MultipleBaseFields
    /\ result[1].detail = {<<"f", 1>>}

\* ---- C5
IsPlain(f) == BaseMarkers(f) = 0

RECURSIVE DefaultInits(_)
DefaultInits(fs) ==
    IF fs = <<>> THEN <<>>
    ELSE (IF IsPlain(Head(fs))
          THEN <<[field |-> Head(fs).name, init |-> "Default::default()"]>>
          ELSE <<>>) \o DefaultInits(Tail(fs))

\* C5: with `init`, the generated constructor sets every field not marked
\* `base` to its default, in declaration order, then assigns the handle to
\* the base field if there is one, and names no other field; a `base` field
\* that is also `export` is not default-initialized.
C5_GeneratedConstructor ==
    (Returned /\ result[1].ok /\ InitConfigured(decl[1]))
        => LET d == decl[1]
               ctor == result[1].value[1].godot_init_impl
           IN  /\ ctor # <<>>
               /\ ctor[1].for = d.name
               /\ ctor[1].literal =
                      DefaultInits(d.fields.named)
                      \o (IF BaseFieldIndexes(d) = {} THEN <<>>
                          ELSE <<[field |-> FirstBaseField(d).name, init |-> "base"]>>)

C5_Witness ==
    /\ Returned
    /\ result[1].ok
    /\ InitConfigured(decl[1])
    /\ Len(decl[1].fields.named) = 2
    /\ decl[1].fields.named[1].attributes = <<<<"export">>, <<"base">>>>
    /\ result[1].value[1].godot_init_impl[1].literal =
           <<[field |-> <<"f", 2>>, init |-> "Default::default()"],
             [field |-> <<"f", 1>>, init |-> "base"]>>

\* ---- C9
Occurrences(x, seq) == Cardinality({i \in 1..Len(seq) : seq[i] = x})

\* C9: whenever parse_fields succeeds on named fields, every declared field
\* is exactly once either in the plain list or the base field, the plain
\* list keeps declaration order, and a generated constructor initializes
\* each declared field exactly once.
C9_FieldsPartition ==
    (Returned /\ NamedStruct(decl[1]) /\ fields # <<>>)
        => LET named == decl[1].fields.named
               plain == fields[1].all_field_names
               base == fields[1].base_field
           IN  /\ Len(plain) + Len(base) = Len(named)
               /\ \A i \in 1..Len(named) :
                      Occurrences(named[i].name, plain)
                      + (IF base # <<>> /\ base[1].name = named[i].name THEN 1 ELSE 0) = 1
               /\ \A i, j \in 1..Len(plain) : i < j => plain[i][2] < plain[j][2]
               /\ (result[1].ok /\ result[1].value[1].godot_init_impl # <<>>) =>
                      LET lit == result[1].value[1].godot_init_impl[1].literal
                      IN  /\ Len(lit) = Len(named)
                          /\ \A i \in 1..Len(named) :
                                 Cardinality({k \in 1..Len(lit) :
                                                 lit[k].field = named[i].name}) = 1

C9_Witness ==
    /\ Returned
    /\ NamedStruct(decl[1])
    /\ fields # <<>>
    /\ Len(decl[1].fields.named) = 3
    /\ fields[1].base_field # <<>>
    /\ fields[1].base_field[1].name = <<"f", 2>>
    /\ result[1].value[1].godot_init_impl # <<>>

\* ---- C10
\* C10 (as stated): a struct whose single field carries `base` twice is
\* rejected with MultipleBaseFields naming that field.
C10_DoubleMarkerAlwaysMultipleBaseFields ==
    (Returned /\ NamedStruct(decl[1]) /\ Len(decl[1].fields.named) = 1
        /\ BaseMarkers(decl[1].fields.named[1]) >= 2)
        => /\ result[1].err = MultipleBaseFields
           /\ result[1].detail = {decl[1].fields.named[1].name}

\* C10 (amended): MultipleBaseFields depends on the number of `base`
\* markers, not of fields: a struct with named fields fails with it exactly
\* when its struct-level attributes resolve without error and it carries two
\* or more `base` markers, and the error names the field holding the first
\* marker - the same field when one field carries both; with exactly one
\* marker the pass never fails with MultipleBaseFields.
C10_MarkerCountDecides ==
    (Returned /\ NamedStruct(decl[1]))
        => LET d == decl[1]
           IN  /\ result[1].err = MultipleBaseFields
                      <=> (AttrsWellFormed(d) /\ TotalBaseMarkers(d.fields.named) >= 2)
               /\ result[1].err = MultipleBaseFields =>
                      result[1].detail = {FirstBaseField(d).name}
               /\ (AttrsWellFormed(d) /\ TotalBaseMarkers(d.fields.named) <= 1) =>
                      result[1].ok

C10_Witness ==
    /\ Returned
    /\ NamedStruct(decl[1])
    /\ Len(decl[1].fields.named) = 1
    /\ decl[1].fields.named[1].attributes = <<<<"base">>, <<"base">>>>
    /\ result[1].err = MultipleBaseFields
    /\ result[1].detail = {<<"f", 1>>}

\* ---- C7
AllDiagnostics ==
    AttributeDiagnostics \cup {UnsupportedShape, UnsupportedFields, MultipleBaseFields}

\* the declarations the pass must reject
FailureCase(d) ==
    \/ d.kind # "struct"
    \/ ~AttrsWellFormed(d)
    \/ d.fields.shape = "Tuple"
    \/ TotalBaseMarkers(d.fields.named) >= 2

FullOutput(d, out) ==
    /\ DOMAIN out = {"binding", "godot_init_impl", "plugin", "inherits_macro"}
    /\ out.binding.CLASS_NAME = d.name
    /\ out.binding.Base = DeclaredBase(d)
    /\ out.binding.Declarer = "UserDomain"
    /\ out.plugin.class_name = d.name
    /\ out.plugin.free_fn = <<"callbacks::free", d.name>>
    /\ out.inherits_macro = <<"inherits_transitive_", DeclaredBase(d)>>
    /\ (out.godot_init_impl # <<>>) <=> InitConfigured(d)

\* C7: a pass over a declaration either returns the full output and
\* registers its entry, or - on every failure path - returns one diagnostic,
\* no output at all, and leaves the registry as it was.
C7_AllOrNothing ==
    [][pc' = "returned" =>
          LET d == decl'[1]
              r == result'[1]
          IN  IF FailureCase(d)
              THEN /\ ~r.ok
                   /\ r.err \in AllDiagnostics
                   /\ r.value = <<>>
                   /\ registry' = registry
              ELSE /\ r.ok
                   /\ r.err = ""
                   /\ FullOutput(d, r.value[1])
                   /\ registry' = Append(registry, r.value[1].plugin)]_vars

\* a pass that failed on its fields after an earlier class was registered
C7_Witness ==
    /\ Returned
    /\ result[1].err = MultipleBaseFields
    /\ result[1].value = <<>>
    /\ Len(registry) = 1
    /\ registry[1].class_name # decl[1].name

\* ---- C8
ExpectedEntry(d) ==
    [class_name |-> d.name,
     base_class_name |-> DeclaredBase(d),
     generated_create_fn |-> IF InitConfigured(d)
                             THEN <<<<"callbacks::create", d.name>>>> ELSE <<>>,
     free_fn |-> <<"callbacks::free", d.name>>]

\* C8: the registry only grows, by exactly one entry per successful pass;
\* the entry (class name, resolved base class name, create fn, free fn) is
\* decided by the declaration alone, not by what was registered before, and
\* no step removes or alters an entry - so the collection of entries does
\* not depend on the order in which the declarations are processed.
C8_RegistryAppendOnly ==
    [][IF pc = "idle" /\ pc' = "returned" /\ result'[1].ok
       THEN registry' = Append(registry, ExpectedEntry(decl'[1]))
       ELSE registry' = registry]_vars

\* two classes registered, the second declared with a base and `init`
C8_Witness ==
    /\ pc = "idle"
    /\ Len(registry) = 2
    /\ registry[1] = ExpectedEntry(Declaration("struct", "Enemy", <<>>, UnitFields))
    /\ registry[2].class_name = "Player"
    /\ registry[2].base_class_name = "Node"
    /\ registry[2].generated_create_fn # <<>>

====
